---- MODULE Spec2Model ----
(***************************************************************************)
(* A model of mp3-cover-art: the application shell (src/src/main.js), the  *)
(* batch orchestrator and single-file converter (src/src/mp3Processor.js)  *)
(* and the logger (src/src/logger.js).                                     *)
(*                                                                         *)
(* File names and paths are sequences of one-character strings, so that    *)
(* path.extname, path.basename, path.join and toLowerCase are computed as  *)
(* the code computes them. Paths are absolute already, so path.resolve      *)
(* changes none.                                                           *)
(*                                                                         *)
(* Spec is the application: one process after another over the same        *)
(* folders. What its steps log is kept only where a step's outcome is a    *)
(* log line (the summary block); the logger itself, its sinks and its      *)
(* threshold, is SpecLogger.                                               *)
(***************************************************************************)
EXTENDS Integers, Sequences, FiniteSets, TLC

\* ------------------------------------------------------------------ bounds
\* How many entries the input folder holds at most.
MaxFiles == 3
\* How many times the program is started over the same folders.
MaxRuns == 2
\* How many log calls one logger receives at most.
MaxCalls == 3

\* ------------------------------------------------------------- path helpers
\* The path separator.
Sep == "/"

\* String.prototype.toLowerCase, on the letters that occur in the model.
LowerOf(c) ==
  CASE c = "M" -> "m"
    [] c = "P" -> "p"
    [] c = "N" -> "n"
    [] c = "G" -> "g"
    [] c = "J" -> "j"
    [] OTHER -> c

toLowerCase(s) == [i \in 1..Len(s) |-> LowerOf(s[i])]

\* Index of the last occurrence of character c in s, 0 when there is none.
LastIndexOf(s, c) ==
  LET hits == {i \in 1..Len(s) : s[i] = c}
  IN IF hits = {} THEN 0 ELSE CHOOSE i \in hits : \A j \in hits : j <= i

\* path.basename: what follows the last separator.
basename(p) == SubSeq(p, LastIndexOf(p, Sep) + 1, Len(p))

\* path.join(dir, name).
join(dir, name) == dir \o <<Sep>> \o name

\* path.extname: from the last dot of the base name to its end; empty when
\* there is no dot, when the only dot is the first character of the base name,
\* and for the name "..".
extname(p) ==
  LET b == basename(p)
      d == LastIndexOf(b, ".")
  IN IF d = 0 \/ d = 1 \/ b = <<".", ".">> THEN <<>> ELSE SubSeq(b, d, Len(b))

\* ------------------------------------------------------------ the file names
InputDir == <<"m">>
\* path.join(inputFolder, '..', 'output'): the sibling directory "output".
DefaultOutputDir == <<"o">>

Mp3Ext == <<".", "m", "p", "3">>

ImageExtensions ==
  { <<".", "j", "p", "g">>, <<".", "j", "p", "e", "g">>, <<".", "p", "n", "g">>,
    <<".", "b", "m", "p">>, <<".", "g", "i", "f">> }

\* Entries the input folder may hold.
NamePool ==
  { <<"a", ".", "m", "p", "3">>, <<"b", ".", "M", "P", "3">>,
    <<"d", ".", "m", "p", "3">>, <<"c", ".", "w", "a", "v">> }

\* Cover-art paths given on the command line.
CoverJpg == <<"c", ".", "j", "p", "g">>
CoverPNG == <<"c", ".", "P", "N", "G">>
CoverTxt == <<"c", ".", "t", "x", "t">>
CoverDotGif == <<".", "g", "i", "f">>
CoverNoExt == <<"c">>

\* Command-line tokens that are not paths are one-symbol sequences.
LogLevelFlag == <<"--log-level">>
DefaultLogLevel == <<"info">>

\* The command lines (process.argv.slice(2)) the program is started with.
ArgvSet ==
  { <<>>,
    <<InputDir>>,
    <<InputDir, LogLevelFlag, <<"warn">>>>,
    <<InputDir, LogLevelFlag>>,
    <<InputDir, CoverJpg>>,
    <<InputDir, CoverPNG, LogLevelFlag, <<"debug">>>>,
    <<InputDir, CoverJpg, InputDir>>,
    <<InputDir, CoverTxt>>,
    <<InputDir, CoverDotGif>>,
    <<InputDir, CoverNoExt, LogLevelFlag, <<"verbose">>>> }

\* Sequences over S without repetition, of length at most n.
RECURSIVE SeqsNoDup(_, _)
SeqsNoDup(S, n) ==
  IF n = 0 THEN {<<>>}
  ELSE {<<>>} \cup
       UNION { {<<x>> \o t : t \in SeqsNoDup(S \ {x}, n - 1)} : x \in S }

\* The directory listings fs.readdir may return for the input folder.
Listings == SeqsNoDup(NamePool, MaxFiles)

\* A filter that compares the extension as it is written.
IsMp3CaseSensitive(file) == extname(file) = Mp3Ext

\* The test of the discovery filter: path.extname(file).toLowerCase() === '.mp3'.
IsMp3(file) == toLowerCase(extname(file)) = Mp3Ext

\* files.filter(IsMp3): the matching entries, in listing order.
RECURSIVE FilterMp3(_)
FilterMp3(files) ==
  IF files = <<>> THEN <<>>
  ELSE (IF IsMp3(Head(files)) THEN <<Head(files)>> ELSE <<>>) \o FilterMp3(Tail(files))

\* files.map(file => path.join(folderPath, file)).
MapJoin(folderPath, files) == [i \in 1..Len(files) |-> join(folderPath, files[i])]

\* Array.prototype.indexOf, 1-based; 0 when absent.
IndexOf(s, x) ==
  LET hits == {i \in 1..Len(s) : s[i] = x}
  IN IF hits = {} THEN 0 ELSE CHOOSE i \in hits : \A j \in hits : i <= j

\* Array.prototype.splice(i, 2): the array without elements i and i + 1.
Splice2(s, i) == SubSeq(s, 1, i - 1) \o SubSeq(s, i + 2, Len(s))

\* -------------------------------------------------------------- command line
NoArgs == [ok |-> FALSE]

\* Mp3CoverArtApp.parseArguments: the --log-level option is taken out when it
\* is followed by a value; fewer than two remaining arguments is a usage error.
parseArguments(av) ==
  LET i == IndexOf(av, LogLevelFlag)
      hasLevel == i # 0 /\ i + 1 <= Len(av)
      level == IF hasLevel THEN av[i + 1] ELSE DefaultLogLevel
      rest == IF hasLevel THEN Splice2(av, i) ELSE av
  IN IF Len(rest) < 2
     THEN [ok |-> FALSE, logLevel |-> level]
     ELSE [ok |-> TRUE,
           inputFolder |-> rest[1],
           coverArtPath |-> rest[2],
           outputFolder |-> IF Len(rest) >= 3 THEN rest[3] ELSE DefaultOutputDir,
           logLevel |-> level]

\* ---------------------------------------------------------------- the state
VARIABLES
  argv,          \* process.argv.slice(2), the same at every start
  listing,       \* the entries of the input folder, in fs.readdir order
  dirs,          \* the directories that exist
  fs,            \* the files that exist: path -> what the file holds
  run,           \* how many times the program has been started
  pc,            \* where Mp3CoverArtApp.run stands
  args,          \* the parsed arguments
  logLevel,      \* the threshold of the logger in use
  exitCode,      \* "none" while the process runs, then its exit code
  setup,         \* how each setup stage of this run ended
  mp3Files,      \* processFolder: the candidate list
  idx,           \* processFolder: the position of the for loop
  successCount,  \* processFolder: successCount
  failureCount,  \* processFolder: failureCount
  child,         \* the child process of the pending spawn
  promise,       \* the promise the run awaits
  lateClose,     \* children that emitted 'error' and have not emitted 'close'
  trace,         \* what happened to each candidate of this run, in order
  summary,       \* the summary block processFolder logged
  startFs,       \* the files that existed when this run started
  startDirs,     \* the directories that existed when this run started
  prev,          \* the summary block of the previous run
  ffmpegAvailable, \* run(): the result of the probe, once known
  readdirCalls,  \* fs.readdir calls of this run
  probeSpawns,   \* spawn('ffmpeg', ['-version']) calls of this run
  logCalls,      \* the logger calls of this run, in order: level and message
  result,        \* how the processFolder call of this run ended
  inFlight,      \* the converter children spawned and neither closed nor failed
  spawnLog,      \* the spawn calls of this run: command and arguments
  probeHow,      \* the first event of the probe's child
  reason,        \* the message of the error the awaited promise was rejected with
  logToFile,     \* Logger: this.logToFile
  logDirExists,  \* Logger: whether the directory of the log file exists
  logInit,       \* Logger: where initializeLogFile stands
  console,       \* Logger: the lines console.log has written
  consoleErrors, \* Logger: how many console.error diagnostics were written
  appends,       \* Logger: the fs.appendFile calls in flight
  logFile,       \* Logger: the lines of the log file
  calls,         \* Logger: how many log calls were made
  lastCall       \* Logger: what the last log call did

vars ==
  <<argv, listing, dirs, fs, run, pc, args, logLevel, exitCode, setup, mp3Files,
    idx, successCount, failureCount, child, promise, lateClose, trace, summary,
    startFs, startDirs, prev, ffmpegAvailable, readdirCalls, probeSpawns,
    logCalls, result, inFlight, spawnLog, probeHow, reason,
    logToFile, logDirExists, logInit, console, consoleErrors, appends, logFile,
    calls, lastCall>>

\* The state of the logger, but for its threshold.
logVars ==
  <<logToFile, logDirExists, logInit, console, consoleErrors, appends, logFile,
    calls, lastCall>>

Stages == {"arguments", "validate", "probe", "list", "ensure"}

NoChild == [kind |-> "none", input |-> <<>>, output |-> <<>>]
NoSummary == [logged |-> FALSE]
NoResult == [kind |-> "none", value |-> <<>>]

\* A logger call: this.logger.<level>(message). A message is the sequence of
\* the pieces its template string is made of.
Call(level, message) == [level |-> level, message |-> message]

\* The messages of the errors the file system may raise.
IoErrors == {<<"EACCES: permission denied">>, <<"ENOSPC: no space left on device">>}

\* Exit statuses of a child: an exit code, or no code when a signal ended it.
ExitOk == [signal |-> FALSE, code |-> 0]
ExitFail == [signal |-> FALSE, code |-> 1]
ExitSignal == [signal |-> TRUE, code |-> 0]
ExitStatuses == {ExitOk, ExitFail, ExitSignal}
\* The status of the 'close' that follows 'error': the negative errno.
ExitSpawnFailed == [signal |-> FALSE, code |-> -2]

\* `${code}` in a message.
CodeText(status) == IF status.signal THEN "null" ELSE ToString(status.code)

\* fs.pathExists: never rejects.
pathExists(p) == p \in DOMAIN fs \/ p \in dirs

\* The file system with path p holding content c.
WriteFile(f, p, c) == [q \in DOMAIN f \cup {p} |-> IF q = p THEN c ELSE f[q]]

\* The state of a run that has not begun.
FreshRun ==
  /\ pc = "start"
  /\ args = NoArgs
  /\ logLevel = DefaultLogLevel
  /\ exitCode = "none"
  /\ setup = [s \in Stages |-> "todo"]
  /\ mp3Files = <<>>
  /\ idx = 0
  /\ successCount = 0
  /\ failureCount = 0
  /\ child = NoChild
  /\ promise = "none"
  /\ lateClose = {}
  /\ trace = <<>>
  /\ summary = NoSummary
  /\ ffmpegAvailable = "unknown"
  /\ readdirCalls = 0
  /\ probeSpawns = 0
  /\ logCalls = <<>>
  /\ result = NoResult
  /\ inFlight = {}
  /\ spawnLog = <<>>
  /\ probeHow = "none"
  /\ reason = <<>>

NoCall == [made |-> FALSE]

\* Logger constructor, lines 8-24, as main.js calls it (logToFile is left to
\* its default, true): nothing written yet, initializeLogFile begun.
FreshLogger ==
  /\ logToFile = TRUE
  /\ logInit = "pending"
  /\ console = <<>>
  /\ consoleErrors = 0
  /\ appends = {}
  /\ logFile = <<>>
  /\ calls = 0
  /\ lastCall = NoCall

\* The candidates of a listing and the destinations a run over it may find.
Destinations(av, l) ==
  LET a == parseArguments(av)
  IN IF ~a.ok \/ a.outputFolder = InputDir THEN {}
     ELSE {join(a.outputFolder, l[i]) : i \in {j \in 1..Len(l) : IsMp3(l[j])}}

\* The cover-art path of a command line, when it names one.
CoverOf(av) ==
  LET a == parseArguments(av)
  IN IF a.ok THEN {a.coverArtPath} ELSE {}

Init ==
  /\ argv \in ArgvSet
  /\ \E world \in {"ready", "noInput", "noCover", "noOutput"} :
       /\ listing \in (IF world = "noInput" THEN {<<>>} ELSE Listings)
       /\ \E pre \in SUBSET Destinations(argv, listing) :
            /\ world # "ready" => pre = {}
            /\ dirs = (IF world = "noInput" THEN {} ELSE {InputDir})
                        \cup (IF world = "ready" THEN {DefaultOutputDir} ELSE {})
            /\ fs = [p \in {join(InputDir, listing[i]) : i \in 1..Len(listing)}
                           \cup (IF world = "noCover" THEN {} ELSE CoverOf(argv))
                           \cup pre
                       |-> IF p \in pre THEN "pre"
                           ELSE IF p \in CoverOf(argv) THEN "img" ELSE "src"]
  /\ run = 1
  /\ startFs = fs
  /\ startDirs = dirs
  /\ prev = NoSummary
  /\ FreshRun
  /\ FreshLogger
  /\ logDirExists = TRUE

\* --------------------------------------------------------- main.js: run()
\* process.exit(1) of the catch block of run(), main.js line 140.
CatchExitCode == 1
\* process.exit(1) of parseArguments after showUsage, main.js line 36.
UsageExitCode == 1
\* An exit code that reports failed conversions.
FailureSensitiveExitCode == IF failureCount > 0 THEN 1 ELSE 0

\* The exit code of a process that ends with nothing left to do.
NaturalExitCode == 0

loopVars == <<mp3Files, idx, successCount, failureCount, trace, summary>>
childVars == <<child, promise, reason>>
worldVars == <<argv, listing, run, startFs, startDirs, prev, ffmpegAvailable>>

\* run(), line 139: the message of the catch block.
AppFailed(message) == <<"Application failed: ">> \o message

\* An error thrown inside run(): the catch block logs it and exits with
\* code 1; exiting discards every event still to come.
Throw(stage, message) ==
  /\ setup' = [setup EXCEPT ![stage] = "fail"]
  /\ logCalls' = Append(logCalls, Call("error", AppFailed(message)))
  /\ pc' = "exited"
  /\ exitCode' = CatchExitCode
  /\ lateClose' = {}

Pass(stage, next) ==
  /\ setup' = [setup EXCEPT ![stage] = "ok"]
  /\ pc' = next
  /\ UNCHANGED <<exitCode, lateClose>>

\* run(), lines 110-118: parse the command line; parseArguments exits with
\* code 1 itself when fewer than two arguments remain. The logger is replaced
\* by one with the given threshold only after parseArguments has returned.
ParseArguments ==
  /\ pc = "start"
  /\ LET a == parseArguments(argv)
     IN IF a.ok
        THEN /\ args' = a
             /\ logLevel' = a.logLevel
             /\ logCalls' = logCalls \o
                  << Call("info", <<"MP3 Cover Art Application Started">>),
                     Call("debug", <<"Log level set to: ">> \o a.logLevel) >>
             /\ Pass("arguments", "validate")
        ELSE /\ setup' = [setup EXCEPT !["arguments"] = "fail"]
             /\ pc' = "exited"
             /\ exitCode' = UsageExitCode
             /\ lateClose' = {}
             /\ UNCHANGED <<args, logLevel, logCalls>>
  /\ UNCHANGED <<worldVars, logVars, dirs, fs, loopVars, childVars, readdirCalls,
                 probeSpawns, result, inFlight, spawnLog, probeHow>>

\* An extension check on the end of the path instead of path.extname.
IsImageByEnding(coverArtPath) ==
  \E e \in ImageExtensions :
    /\ Len(coverArtPath) >= Len(e)
    /\ toLowerCase(SubSeq(coverArtPath, Len(coverArtPath) - Len(e) + 1,
                          Len(coverArtPath))) = e

\* The check of validateArguments, lines 92-96.
IsImage(coverArtPath) == toLowerCase(extname(coverArtPath)) \in ImageExtensions

\* validateArguments, lines 78-104: the input folder exists, the cover file
\* exists, its extension is an image extension, and then the output folder
\* is created (which may fail).
ValidateArguments ==
  /\ pc = "validate"
  /\ \E mkdir \in {<<"ok">>} \cup IoErrors :
       IF ~pathExists(args.inputFolder)
       THEN /\ mkdir = <<"ok">>
            /\ Throw("validate", <<"Input folder does not exist: ">> \o args.inputFolder)
            /\ UNCHANGED dirs
       ELSE IF ~pathExists(args.coverArtPath)
       THEN /\ mkdir = <<"ok">>
            /\ Throw("validate",
                     <<"Cover art file does not exist: ">> \o args.coverArtPath)
            /\ UNCHANGED dirs
       ELSE IF ~IsImage(args.coverArtPath)
       THEN /\ mkdir = <<"ok">>
            /\ Throw("validate",
                     <<"Cover art must be an image file. Supported formats: ",
                       ".jpg, .jpeg, .png, .bmp, .gif">>)
            /\ UNCHANGED dirs
       ELSE IF mkdir # <<"ok">>
       THEN /\ Throw("validate", mkdir)
            /\ UNCHANGED dirs
       ELSE /\ dirs' = dirs \cup {args.outputFolder}
            /\ logCalls' = logCalls \o
                 << Call("info", <<"Input folder: ">> \o args.inputFolder),
                    Call("info", <<"Cover art: ">> \o args.coverArtPath),
                    Call("info", <<"Output folder: ">> \o args.outputFolder) >>
            /\ Pass("validate", "probe")
  /\ UNCHANGED <<worldVars, logVars, fs, args, logLevel, loopVars, childVars, readdirCalls,
                 probeSpawns, result, inFlight, spawnLog, probeHow>>

\* A spawn call: spawn(command, args). Every argument is a sequence; an
\* option is a one-symbol sequence.
Spawned(command, arguments) == [command |-> command, args |-> arguments]

\* run(), line 123, and validateFFmpeg, lines 165-168: spawn the binary with
\* -version.
ProbeSpawn ==
  /\ pc = "probe"
  /\ pc' = "probing"
  /\ logCalls' = Append(logCalls, Call("info", <<"Checking FFmpeg installation...">>))
  /\ spawnLog' = Append(spawnLog, Spawned(<<"ffmpeg">>, << <<"-version">> >>))
  /\ child' = [kind |-> "probe", input |-> <<>>, output |-> <<>>]
  /\ promise' = "pending"
  /\ probeSpawns' = probeSpawns + 1
  /\ UNCHANGED <<worldVars, logVars, dirs, fs, args, logLevel, exitCode, setup, loopVars,
                 lateClose, readdirCalls, result, inFlight, probeHow, reason>>

\* A falsy test of the exit code, !code, which takes a null code for success.
CodeIsFalsy(status) == status.code = 0

\* The test of both 'close' handlers: code === 0 (false for a null code).
CodeIsZero(status) == ~status.signal /\ status.code = 0

\* Settling a promise: only a pending promise changes.
Settle(p, outcome) == IF p = "pending" THEN outcome ELSE p

\* How a child ended, for the record of its first event.
HowOf(status) ==
  IF status.signal THEN "signal" ELSE IF status.code = 0 THEN "exit0" ELSE "exitN"

\* A 'close' handler that resolves with true whatever the code.
ProbeResultAlwaysTrue(status) == "true"

\* validateFFmpeg, line 171: resolve(code === 0).
ProbeResult(status) == IF CodeIsZero(status) THEN "true" ELSE "false"

\* validateFFmpeg, lines 170-172: 'close' resolves with code === 0.
ProbeClose ==
  /\ child.kind = "probe"
  /\ \E status \in ExitStatuses :
       /\ promise' = Settle(promise, ProbeResult(status))
       /\ probeHow' = HowOf(status)
  /\ child' = NoChild
  /\ UNCHANGED <<worldVars, logVars, dirs, fs, pc, args, logLevel, exitCode, setup, loopVars,
                 lateClose, readdirCalls, probeSpawns, logCalls, result, inFlight,
                 spawnLog, reason>>

\* validateFFmpeg, lines 174-176: 'error' (the binary could not be started)
\* resolves with false; the child's 'close' is still to come.
ProbeError ==
  /\ child.kind = "probe"
  /\ promise' = Settle(promise, "false")
  /\ probeHow' = "spawnerr"
  /\ lateClose' = lateClose \cup {child}
  /\ child' = NoChild
  /\ UNCHANGED <<worldVars, logVars, dirs, fs, pc, args, logLevel, exitCode, setup, loopVars,
                 readdirCalls, probeSpawns, logCalls, result, inFlight, spawnLog, reason>>

\* A run() that does not look at the result of the probe.
UnavailableIgnored(available) == FALSE

\* run(), line 125: if (!ffmpegAvailable).
Unavailable(available) == available # "true"

\* run(), lines 124-131: a false probe result is thrown as an error.
AfterProbe ==
  /\ pc = "probing"
  /\ promise \in {"true", "false"}
  /\ promise' = "none"
  /\ ffmpegAvailable' = promise
  /\ IF Unavailable(promise)
     THEN Throw("probe",
                <<"FFmpeg is not installed or not accessible. ",
                  "Please install FFmpeg and ensure it is in your system PATH.">>)
     ELSE /\ logCalls' = Append(logCalls, Call("info", <<"FFmpeg is available">>))
          /\ Pass("probe", "list")
  /\ UNCHANGED <<argv, listing, run, startFs, startDirs, prev, logVars, dirs, fs, args,
                 logLevel, loopVars, child, readdirCalls, probeSpawns, result, inFlight,
                 spawnLog, probeHow, reason>>

\* ------------------------------------------- mp3Processor.js: processFolder
\* The marks that open the messages of applyCoverArt and run(): a check mark
\* and a ballot cross.
CheckMark == "(check) "
CrossMark == "(cross) "

\* processFolder returns no value: its caller receives undefined.
Returned == [kind |-> "returned", value |-> <<"undefined">>]
Threw(message) == [kind |-> "threw", value |-> message]

\* getMp3Files, line 28: the rethrown listing error.
ReadError(folderPath, cause) ==
  <<"Failed to read directory ">> \o folderPath \o <<": ">> \o cause

\* An outer catch block that drops the message of the error it caught.
FolderErrorBare(cause) == <<"Failed to process folder">>

\* processFolder, line 156: the error of the outer catch block.
FolderError(cause) == <<"Failed to process folder: ">> \o cause

\* A processFolder without the early return for an empty folder.
NoCandidatesIgnored(found) == FALSE

\* processFolder, line 110: mp3Files.length === 0.
NoCandidates(found) == Len(found) = 0

\* run(), line 136: the message after processFolder has returned.
CompletedCall == Call("info", <<"MP3 Cover Art Application Completed Successfully">>)

\* getMp3Files, lines 18-30, and the empty case of processFolder, lines
\* 108-113: list the input folder and keep the .mp3 entries; with none,
\* processFolder warns and returns at once. A listing error is rethrown,
\* wrapped by processFolder, and reaches the catch block of run().
GetMp3Files ==
  /\ pc = "list"
  /\ readdirCalls' = readdirCalls + 1
  /\ \E readdir \in {<<"ok">>} \cup IoErrors :
       IF readdir = <<"ok">>
       THEN LET found == MapJoin(args.inputFolder, FilterMp3(listing))
                foundCall == Call("info", <<"Found ", ToString(Len(found)),
                                            " MP3 files in ">> \o args.inputFolder)
            IN /\ mp3Files' = found
               /\ IF NoCandidates(found)
                  THEN /\ logCalls' = logCalls \o
                            << foundCall,
                               Call("warn", <<"No MP3 files found in the input folder">>),
                               CompletedCall >>
                       /\ result' = Returned
                       /\ Pass("list", "completed")
                  ELSE /\ logCalls' = Append(logCalls, foundCall)
                       /\ UNCHANGED result
                       /\ Pass("list", "ensure")
       ELSE LET e == FolderError(ReadError(args.inputFolder, readdir))
            IN /\ Throw("list", e)
               /\ result' = Threw(e)
               /\ UNCHANGED mp3Files
  /\ UNCHANGED <<worldVars, logVars, dirs, fs, args, logLevel, idx, successCount, failureCount,
                 trace, summary, childVars, probeSpawns, inFlight, spawnLog, probeHow>>

\* processFolder, lines 116-121: fs.ensureDir(outputFolder), then the counters
\* start at 0.
EnsureOutputDir ==
  /\ pc = "ensure"
  /\ \E mkdir \in {<<"ok">>} \cup IoErrors :
       IF mkdir = <<"ok">>
       THEN /\ dirs' = dirs \cup {args.outputFolder}
            /\ idx' = 1
            /\ successCount' = 0
            /\ failureCount' = 0
            /\ logCalls' = Append(logCalls,
                 Call("info", <<"Starting to process ", ToString(Len(mp3Files)),
                                " MP3 files...">>))
            /\ UNCHANGED result
            /\ Pass("ensure", "loop")
       ELSE /\ Throw("ensure", FolderError(mkdir))
            /\ result' = Threw(FolderError(mkdir))
            /\ UNCHANGED <<dirs, idx, successCount, failureCount>>
  /\ UNCHANGED <<worldVars, logVars, fs, args, logLevel, mp3Files, trace, summary, childVars,
                 readdirCalls, probeSpawns, inFlight, spawnLog, probeHow>>

\* processFolder, line 127: path.join(outputFolder, path.basename(inputFile)).
OutputFileOf(inputFile) == join(args.outputFolder, basename(inputFile))

\* A loop without the existence check.
DestinationNeverExists(outputFile) == FALSE

\* processFolder, line 130: the existence check that guards the converter.
DestinationExists(outputFile) == pathExists(outputFile)

\* An argument list that lacks the overwrite option and maps the streams in
\* the other order.
ffmpegArgsReordered(inputFile, coverArtPath, outputFile) ==
  << <<"-i">>, inputFile, <<"-i">>, coverArtPath,
     <<"-map">>, <<"1:0">>, <<"-map">>, <<"0:a">>,
     <<"-c:a">>, <<"copy">>, <<"-c:v">>, <<"copy">>,
     <<"-id3v2_version">>, <<"3">>,
     <<"-disposition:v:0">>, <<"attached_pic">>,
     outputFile >>

\* applyCoverArt, lines 43-54: the arguments of the converter.
ffmpegArgs(inputFile, coverArtPath, outputFile) ==
  << <<"-i">>, inputFile, <<"-i">>, coverArtPath,
     <<"-map">>, <<"0:a">>, <<"-map">>, <<"1:0">>,
     <<"-c:a">>, <<"copy">>, <<"-c:v">>, <<"copy">>,
     <<"-id3v2_version">>, <<"3">>,
     <<"-disposition:v:0">>, <<"attached_pic">>,
     <<"-y">>,
     outputFile >>

\* Array.prototype.join: the parts with the separator between them.
RECURSIVE JoinWith(_, _)
JoinWith(parts, separator) ==
  IF parts = <<>> THEN <<>>
  ELSE IF Len(parts) = 1 THEN Head(parts)
  ELSE Head(parts) \o <<separator>> \o JoinWith(Tail(parts), separator)

\* The record of a candidate the loop has reached.
Entry(inputFile, outputFile, outcome) ==
  [input |-> inputFile, output |-> outputFile, existed |-> pathExists(outputFile),
   outcome |-> outcome, how |-> "none", reason |-> <<>>]

\* applyCoverArt, lines 40-60: log the file and the command, spawn the
\* converter; the caller awaits the promise returned.
ApplyCoverArt(inputFile, outputFile, before) ==
  LET arguments == ffmpegArgs(inputFile, args.coverArtPath, outputFile)
      spawned == [kind |-> "convert", input |-> inputFile, output |-> outputFile]
  IN /\ logCalls' = logCalls \o before \o
          << Call("info", <<"Processing: ">> \o basename(inputFile)),
             Call("info", <<"FFmpeg command: ffmpeg ">> \o JoinWith(arguments, " ")) >>
     /\ spawnLog' = Append(spawnLog, Spawned(<<"ffmpeg">>, arguments))
     /\ child' = spawned
     /\ inFlight' = inFlight \cup {spawned}
     /\ promise' = "pending"
     /\ reason' = <<>>
     /\ trace' = Append(trace, Entry(inputFile, outputFile, "pending"))

\* processFolder, line 132: the warning of the skip branch.
SkipCall(inputFile) ==
  Call("warn", <<"Output file already exists, skipping: ">> \o basename(inputFile))

\* A skip branch that warns and lacks the continue: the converter runs on.
SkipExistingNoContinue ==
  /\ pc = "loop"
  /\ idx <= Len(mp3Files)
  /\ LET inputFile == mp3Files[idx]
         outputFile == OutputFileOf(inputFile)
     IN /\ DestinationExists(outputFile)
        /\ ApplyCoverArt(inputFile, outputFile, <<SkipCall(inputFile)>>)
  /\ pc' = "converting"
  /\ UNCHANGED <<worldVars, logVars, dirs, fs, args, logLevel, exitCode, setup, mp3Files, idx,
                 successCount, failureCount, summary, lateClose, readdirCalls,
                 probeSpawns, result, probeHow>>

\* processFolder, lines 130-133: the destination exists; warn and continue.
SkipExisting ==
  /\ pc = "loop"
  /\ idx <= Len(mp3Files)
  /\ LET inputFile == mp3Files[idx]
         outputFile == OutputFileOf(inputFile)
     IN /\ DestinationExists(outputFile)
        /\ logCalls' = Append(logCalls, SkipCall(inputFile))
        /\ trace' = Append(trace, Entry(inputFile, outputFile, "skipped"))
  /\ idx' = idx + 1
  /\ UNCHANGED <<worldVars, logVars, dirs, fs, pc, args, logLevel, exitCode, setup, mp3Files,
                 successCount, failureCount, summary, childVars, lateClose,
                 readdirCalls, probeSpawns, result, inFlight, spawnLog, probeHow>>

\* A loop that starts the converter and moves on without awaiting it.
ConvertSpawnNoAwait ==
  /\ pc = "loop"
  /\ idx <= Len(mp3Files)
  /\ LET inputFile == mp3Files[idx]
         outputFile == OutputFileOf(inputFile)
     IN /\ ~DestinationExists(outputFile)
        /\ ApplyCoverArt(inputFile, outputFile, <<>>)
  /\ idx' = idx + 1
  /\ UNCHANGED <<worldVars, logVars, dirs, fs, pc, args, logLevel, exitCode, setup, mp3Files,
                 successCount, failureCount, summary, lateClose, readdirCalls,
                 probeSpawns, result, probeHow>>

\* processFolder, line 135, and applyCoverArt, lines 40-60: the destination
\* does not exist; spawn the converter and await its promise.
ConvertSpawn ==
  /\ pc = "loop"
  /\ idx <= Len(mp3Files)
  /\ LET inputFile == mp3Files[idx]
         outputFile == OutputFileOf(inputFile)
     IN /\ ~DestinationExists(outputFile)
        /\ ApplyCoverArt(inputFile, outputFile, <<>>)
  /\ pc' = "converting"
  /\ UNCHANGED <<worldVars, logVars, dirs, fs, args, logLevel, exitCode, setup, mp3Files, idx,
                 successCount, failureCount, summary, lateClose, readdirCalls,
                 probeSpawns, result, probeHow>>

\* The record of the candidate in hand, with the first event of its child.
Recorded(tr, how) ==
  IF tr[Len(tr)].how = "none" THEN [tr EXCEPT ![Len(tr)].how = how] ELSE tr

\* The message of the error a failed spawn emits.
SpawnErrorMessage == <<"spawn ffmpeg ENOENT">>

\* applyCoverArt, line 88: the error of a non-zero exit.
ExitError(status) == <<"FFmpeg process exited with code ", CodeText(status)>>

\* A promise whose rejection reason a later reject call overwrites.
SettleReasonLast(p, old, new) == new

\* The reason of a rejection: that of the call that settled the promise.
SettleReason(p, old, new) == IF p = "pending" THEN new ELSE old

\* applyCoverArt, lines 79-90: what the 'close' handler logs. hasStderr tells
\* whether the child had written anything to its standard error.
CloseCalls(c, status, hasStderr) ==
  IF CodeIsZero(status)
  THEN << Call("info", <<CheckMark, "Completed: ">> \o basename(c.output)) >>
  ELSE << Call("error", <<CrossMark, "Failed to process ">> \o basename(c.input)
                          \o <<": FFmpeg exited with code ", CodeText(status)>>) >>
       \o (IF hasStderr THEN << Call("error", <<"FFmpeg stderr: ", "(stderr)">>) >>
           ELSE <<>>)

\* applyCoverArt, lines 79-90: 'close' resolves when code === 0 and rejects
\* otherwise. The binary (run with -y) has written the destination when it
\* exits with 0; when it fails it may leave a partial file there or nothing.
\* A binary that ran has written its banner to its standard error.
ConvertClose ==
  /\ child.kind = "convert"
  /\ \E status \in ExitStatuses, leavesPartial \in BOOLEAN :
       /\ status = ExitOk => ~leavesPartial
       /\ fs' = IF status = ExitOk THEN WriteFile(fs, child.output, "good")
                ELSE IF leavesPartial THEN WriteFile(fs, child.output, "partial")
                ELSE fs
       /\ logCalls' = logCalls \o CloseCalls(child, status, TRUE)
       /\ promise' = Settle(promise, IF CodeIsZero(status) THEN "resolved" ELSE "rejected")
       /\ reason' = SettleReason(promise, reason,
                                 IF CodeIsZero(status) THEN <<>> ELSE ExitError(status))
       /\ trace' = Recorded(trace, HowOf(status))
  /\ inFlight' = inFlight \ {child}
  /\ child' = NoChild
  /\ UNCHANGED <<worldVars, logVars, dirs, pc, args, logLevel, exitCode, setup, mp3Files, idx,
                 successCount, failureCount, summary, lateClose, readdirCalls,
                 probeSpawns, result, spawnLog, probeHow>>

\* applyCoverArt, lines 92-95: 'error' (the binary could not be started)
\* rejects; nothing was written, and the child's 'close' is still to come.
ConvertError ==
  /\ child.kind = "convert"
  /\ logCalls' = Append(logCalls,
       Call("error", <<CrossMark, "Failed to start FFmpeg: ">> \o SpawnErrorMessage))
  /\ promise' = Settle(promise, "rejected")
  /\ reason' = SettleReason(promise, reason, SpawnErrorMessage)
  /\ trace' = Recorded(trace, "spawnerr")
  /\ lateClose' = lateClose \cup {child}
  /\ inFlight' = inFlight \ {child}
  /\ child' = NoChild
  /\ UNCHANGED <<worldVars, logVars, dirs, fs, pc, args, logLevel, exitCode, setup, mp3Files,
                 idx, successCount, failureCount, summary, readdirCalls, probeSpawns,
                 result, spawnLog, probeHow>>

\* Whether the promise of child z, which has emitted 'error', is the one
\* the program is awaiting now.
Awaited(z) ==
  /\ child = NoChild
  /\ IF z.kind = "probe" THEN pc = "probing"
     ELSE /\ pc = "converting"
          /\ trace[Len(trace)].input = z.input

\* The 'close' of a child that had emitted 'error': its handler runs with a
\* non-zero code, logs (the converter's handler) and settles again the
\* promise of that child, which is settled already.
LateClose ==
  /\ \E z \in lateClose :
       /\ lateClose' = lateClose \ {z}
       /\ logCalls' = logCalls \o
            (IF z.kind = "convert" THEN CloseCalls(z, ExitSpawnFailed, FALSE) ELSE <<>>)
       /\ IF Awaited(z)
          THEN IF z.kind = "probe"
               THEN /\ promise' = Settle(promise, ProbeResult(ExitSpawnFailed))
                    /\ UNCHANGED reason
               ELSE /\ promise' = Settle(promise, "rejected")
                    /\ reason' = SettleReason(promise, reason, ExitError(ExitSpawnFailed))
          ELSE UNCHANGED <<promise, reason>>
  /\ UNCHANGED <<worldVars, logVars, dirs, fs, pc, args, logLevel, exitCode, setup, loopVars,
                 child, readdirCalls, probeSpawns, result, inFlight, spawnLog, probeHow>>

\* processFolder, line 136: successCount++ when the await returns.
SuccessAfter(outcome, n) == IF outcome = "resolved" THEN n + 1 ELSE n

\* A catch block that forgets to count the failure.
FailureAfterUncounted(outcome, n) == n

\* processFolder, line 140: failureCount++ in the catch block.
FailureAfter(outcome, n) == IF outcome = "resolved" THEN n ELSE n + 1

\* processFolder, line 139: the message of the inner catch block.
FailedCall(inputFile, message) ==
  Call("error", <<"Failed to process ">> \o basename(inputFile) \o <<": ">> \o message)

\* The record of the candidate in hand once the await has returned or thrown.
Settled(tr, outcome, message) ==
  [tr EXCEPT ![Len(tr)].outcome = IF outcome = "resolved" THEN "succeeded" ELSE "failed",
             ![Len(tr)].reason = message]

\* A loop without the inner try/catch: a rejected conversion propagates out
\* of processFolder and reaches the catch block of run().
AfterConvertAborting ==
  /\ pc = "converting"
  /\ promise \in {"resolved", "rejected"}
  /\ successCount' = SuccessAfter(promise, successCount)
  /\ trace' = Settled(trace, promise, reason)
  /\ promise' = "none"
  /\ reason' = <<>>
  /\ IF promise = "resolved"
     THEN /\ idx' = idx + 1
          /\ pc' = "loop"
          /\ UNCHANGED <<exitCode, lateClose, logCalls, result>>
     ELSE /\ idx' = idx
          /\ pc' = "exited"
          /\ exitCode' = CatchExitCode
          /\ lateClose' = {}
          /\ logCalls' = Append(logCalls, Call("error", AppFailed(FolderError(reason))))
          /\ result' = Threw(FolderError(reason))
  /\ UNCHANGED <<worldVars, logVars, dirs, fs, args, logLevel, setup, mp3Files, failureCount,
                 summary, child, readdirCalls, probeSpawns, inFlight, spawnLog, probeHow>>

\* processFolder, lines 135-141: the await returns and successCount is
\* incremented, or it throws and the catch logs the error and increments
\* failureCount.
AfterConvert ==
  /\ pc = "converting"
  /\ promise \in {"resolved", "rejected"}
  /\ successCount' = SuccessAfter(promise, successCount)
  /\ failureCount' = FailureAfter(promise, failureCount)
  /\ trace' = Settled(trace, promise, reason)
  /\ logCalls' = logCalls \o
       (IF promise = "resolved" THEN <<>> ELSE <<FailedCall(mp3Files[idx], reason)>>)
  /\ promise' = "none"
  /\ reason' = <<>>
  /\ idx' = idx + 1
  /\ pc' = "loop"
  /\ UNCHANGED <<worldVars, logVars, dirs, fs, args, logLevel, exitCode, setup, mp3Files,
                 summary, child, lateClose, readdirCalls, probeSpawns, result, inFlight,
                 spawnLog, probeHow>>

\* A summary that is left out when nothing was saved.
SummaryCallsIfSaved(total, successful, failed, outputFolder) ==
  IF successful = 0 THEN <<>>
  ELSE << Call("info", <<"\n=== Processing Summary ===">>),
          Call("info", <<"Total files: ", ToString(total)>>),
          Call("info", <<"Successful: ", ToString(successful)>>),
          Call("info", <<"Failed: ", ToString(failed)>>),
          Call("info", <<"Skipped: ", ToString(total - successful - failed)>>),
          Call("info", <<CheckMark, "All processed files saved to: ">> \o outputFolder) >>

\* processFolder, lines 145-153: the five lines of the summary, the skipped
\* figure computed from the other three, and the line that names the output
\* folder when something was saved.
SummaryCalls(total, successful, failed, outputFolder) ==
  << Call("info", <<"\n=== Processing Summary ===">>),
     Call("info", <<"Total files: ", ToString(total)>>),
     Call("info", <<"Successful: ", ToString(successful)>>),
     Call("info", <<"Failed: ", ToString(failed)>>),
     Call("info", <<"Skipped: ", ToString(total - successful - failed)>>) >>
  \o (IF successful > 0
      THEN << Call("info", <<CheckMark, "All processed files saved to: ">> \o outputFolder) >>
      ELSE <<>>)

\* processFolder, lines 145-153, and run(), line 136: the summary, the return
\* of processFolder and the closing message of run().
Summary ==
  /\ pc = "loop"
  /\ idx > Len(mp3Files)
  /\ summary' = [logged |-> TRUE,
                 total |-> Len(mp3Files),
                 successful |-> successCount,
                 failed |-> failureCount,
                 skipped |-> Len(mp3Files) - successCount - failureCount]
  /\ logCalls' = logCalls
       \o SummaryCalls(Len(mp3Files), successCount, failureCount, args.outputFolder)
       \o <<CompletedCall>>
  /\ result' = Returned
  /\ pc' = "completed"
  /\ UNCHANGED <<worldVars, logVars, dirs, fs, args, logLevel, exitCode, setup, mp3Files, idx,
                 successCount, failureCount, trace, childVars, lateClose,
                 readdirCalls, probeSpawns, inFlight, spawnLog, probeHow>>

\* run() has returned: the process ends with code 0 once no event is left.
Exit ==
  /\ pc = "completed"
  /\ lateClose = {}
  /\ pc' = "exited"
  /\ exitCode' = NaturalExitCode
  /\ UNCHANGED <<worldVars, logVars, dirs, fs, args, logLevel, setup, loopVars, childVars,
                 lateClose, readdirCalls, probeSpawns, logCalls, result, inFlight,
                 spawnLog, probeHow>>

\* The program is started again with the same command line over the same
\* folders, which nothing else has touched.
Rerun ==
  /\ pc = "exited"
  /\ run < MaxRuns
  /\ run' = run + 1
  /\ startFs' = fs
  /\ startDirs' = dirs
  /\ prev' = summary
  /\ ffmpegAvailable' = "unknown"
  /\ pc' = "start"
  /\ args' = NoArgs
  /\ logLevel' = DefaultLogLevel
  /\ exitCode' = "none"
  /\ setup' = [s \in Stages |-> "todo"]
  /\ mp3Files' = <<>>
  /\ idx' = 0
  /\ successCount' = 0
  /\ failureCount' = 0
  /\ child' = NoChild
  /\ promise' = "none"
  /\ lateClose' = {}
  /\ trace' = <<>>
  /\ summary' = NoSummary
  /\ readdirCalls' = 0
  /\ probeSpawns' = 0
  /\ logCalls' = <<>>
  /\ result' = NoResult
  /\ inFlight' = {}
  /\ spawnLog' = <<>>
  /\ probeHow' = "none"
  /\ reason' = <<>>
  /\ UNCHANGED <<argv, listing, dirs, fs, logVars>>

Next ==
  \/ ParseArguments
  \/ ValidateArguments
  \/ ProbeSpawn
  \/ ProbeClose
  \/ ProbeError
  \/ AfterProbe
  \/ GetMp3Files
  \/ EnsureOutputDir
  \/ SkipExisting
  \/ ConvertSpawn
  \/ ConvertClose
  \/ ConvertError
  \/ LateClose
  \/ AfterConvert
  \/ Summary
  \/ Exit
  \/ Rerun

Spec == Init /\ [][Next]_vars

\* ----------------------------------------------------------------- logger.js
\* Logger constructor, lines 11-16: this.logLevels.
logLevels ==
  (<<"debug">> :> 0) @@ (<<"info">> :> 1) @@ (<<"warn">> :> 2) @@ (<<"error">> :> 3)

\* The levels of the convenience methods debug, info, warn, error.
Levels == {<<"debug">>, <<"info">>, <<"warn">>, <<"error">>}

\* Names this.logLevels inherits from Object.prototype: this.logLevels[name]
\* is a function for them. Their order is that of the strings the functions
\* convert to, "function Object() { [native code] }" before
\* "function toString() { [native code] }".
InheritedOrder == (<<"constructor">> :> 1) @@ (<<"toString">> :> 2)

\* The thresholds --log-level may give: main.js accepts any word.
Thresholds == Levels \cup {<<"verbose">>, <<"constructor">>}

\* The levels the generic method log(level, message) may be called with
\* besides those of the convenience methods.
OtherLevels == {<<"trace">>, <<"constructor">>, <<"toString">>}

\* this.logLevels[name]: a number, an inherited function, or undefined.
LevelProperty(name) ==
  IF name \in DOMAIN logLevels THEN [kind |-> "number", value |-> logLevels[name]]
  ELSE IF name \in DOMAIN InheritedOrder
       THEN [kind |-> "function", value |-> InheritedOrder[name]]
  ELSE [kind |-> "undefined", value |-> 0]

\* a > b: never true for an operand that is undefined or for a number with a
\* function (the function converts to a string that is not a number).
GreaterThan(a, b) ==
  /\ a.kind = b.kind
  /\ a.kind # "undefined"
  /\ a.value > b.value

\* a >= b: two numbers compare as numbers and two functions as the strings
\* they convert to; a number with a function, and anything with undefined,
\* compare false.
AtLeast(a, b) ==
  /\ a.kind = b.kind
  /\ a.kind # "undefined"
  /\ a.value >= b.value

\* A comparison that leaves out the threshold itself.
shouldLogAbove(level) == GreaterThan(LevelProperty(level), LevelProperty(logLevel))

\* shouldLog, lines 60-62: this.logLevels[level] >= this.logLevels[this.logLevel].
shouldLog(level) == AtLeast(LevelProperty(level), LevelProperty(logLevel))

\* String.prototype.toUpperCase, on the level names.
toUpperCase(level) ==
  CASE level = <<"debug">> -> <<"DEBUG">>
    [] level = <<"info">> -> <<"INFO">>
    [] level = <<"warn">> -> <<"WARN">>
    [] level = <<"error">> -> <<"ERROR">>
    [] level = <<"trace">> -> <<"TRACE">>
    [] level = <<"constructor">> -> <<"CONSTRUCTOR">>
    [] level = <<"toString">> -> <<"TOSTRING">>
    [] OTHER -> level

\* formatMessage, lines 70-73: [timestamp] [LEVEL] message.
formatMessage(timestamp, level, message) ==
  [timestamp |-> timestamp, level |-> toUpperCase(level), message |-> message]

\* log, lines 102-117: the colour of the console line.
ColourOf(level) ==
  CASE level = <<"debug">> -> "cyan"
    [] level = <<"info">> -> "green"
    [] level = <<"warn">> -> "yellow"
    [] level = <<"error">> -> "red"
    [] OTHER -> "plain"

appVars ==
  <<argv, listing, dirs, fs, run, pc, args, exitCode, setup, mp3Files, idx,
    successCount, failureCount, child, promise, lateClose, trace, summary,
    startFs, startDirs, prev, ffmpegAvailable, readdirCalls, probeSpawns,
    logCalls, result, inFlight, spawnLog, probeHow, reason>>

\* The state of the application but for where the process stands.
runVars ==
  <<argv, listing, dirs, fs, run, args, setup, mp3Files, idx,
    successCount, failureCount, child, promise, lateClose, trace, summary,
    startFs, startDirs, prev, ffmpegAvailable, readdirCalls, probeSpawns,
    logCalls, result, inFlight, spawnLog, probeHow, reason>>

\* initializeLogFile, lines 29-36: ensureDir and ensureFile complete, or one
\* of them fails and the failure is reported with console.error.
InitializeLogFile ==
  /\ pc # "exited"
  /\ logToFile
  /\ logInit = "pending"
  /\ \E ok \in BOOLEAN :
       IF ok
       THEN /\ logInit' = "done"
            /\ logDirExists' = TRUE
            /\ UNCHANGED consoleErrors
       ELSE /\ logInit' = "failed"
            /\ consoleErrors' = consoleErrors + 1
            /\ UNCHANGED logDirExists
  /\ UNCHANGED <<appVars, logLevel, logToFile, console, appends, logFile, calls,
                 lastCall>>

\* log, lines 94-121, up to its await, with writeToFile, lines 79-82, up to
\* its own: below the threshold nothing happens; otherwise the formatted line
\* is written to the console and, when logToFile, fs.appendFile is called.
\* lastCall records what the call did and where initializeLogFile stood.
Log(level) ==
  /\ calls < MaxCalls
  /\ calls' = calls + 1
  /\ IF shouldLog(level)
     THEN LET line == formatMessage(calls', level, calls')
          IN /\ console' = Append(console, [line |-> line, colour |-> ColourOf(level)])
             /\ appends' = IF logToFile
                           THEN appends \cup {[id |-> calls', line |-> line]}
                           ELSE appends
     ELSE UNCHANGED <<console, appends>>
  /\ lastCall' = [made |-> TRUE, level |-> level, init |-> logInit,
                  console |-> console' # console, file |-> appends' # appends]
  /\ UNCHANGED <<logLevel, logToFile, logDirExists, logInit, consoleErrors, logFile>>

\* A call of debug, info, warn, error or log by a running program.
LogCall(level) ==
  /\ pc # "exited"
  /\ Log(level)
  /\ UNCHANGED appVars

\* writeToFile, lines 82-85: an fs.appendFile call completes, the calls in
\* flight in any order: the line is appended, or the call fails (always when
\* the directory is missing) and the failure is reported with console.error.
AppendComplete ==
  /\ pc # "exited"
  /\ \E a \in appends, ok \in BOOLEAN :
       /\ appends' = appends \ {a}
       /\ IF ok /\ logDirExists
          THEN /\ logFile' = Append(logFile, a.line)
               /\ UNCHANGED consoleErrors
          ELSE /\ consoleErrors' = consoleErrors + 1
               /\ UNCHANGED logFile
  /\ UNCHANGED <<appVars, logLevel, logToFile, logDirExists, logInit, console, calls,
                 lastCall>>

LogDebug == LogCall(<<"debug">>)
LogInfo == LogCall(<<"info">>)
LogWarn == LogCall(<<"warn">>)
LogError == LogCall(<<"error">>)

\* log(level, message), lines 94-121, called with another level.
LogOther == \E level \in OtherLevels : LogCall(level)

\* main.js, lines 139-140: the catch block of run() logs the error and calls
\* process.exit(1) at once; what is still in flight (appends, the
\* initialization of the log file) is abandoned.
LogErrorAndExit ==
  /\ pc # "exited"
  /\ Log(<<"error">>)
  /\ pc' = "exited"
  /\ exitCode' = CatchExitCode
  /\ UNCHANGED runVars

\* main.js, lines 136 and 146-149: run() has returned; the process ends with
\* code 0 once nothing is in flight.
DrainAndExit ==
  /\ pc # "exited"
  /\ appends = {}
  /\ logInit # "pending"
  /\ pc' = "exited"
  /\ exitCode' = NaturalExitCode
  /\ UNCHANGED <<runVars, logVars, logLevel>>

\* A logger with any threshold, in a working directory with or without a
\* logs directory, and no run of the application.
InitLogger ==
  /\ logLevel \in Thresholds
  /\ logDirExists \in BOOLEAN
  /\ FreshLogger
  /\ argv = <<>>
  /\ listing = <<>>
  /\ dirs = {}
  /\ fs = <<>>
  /\ run = 1
  /\ startFs = <<>>
  /\ startDirs = {}
  /\ prev = NoSummary
  /\ pc = "start"
  /\ args = NoArgs
  /\ exitCode = "none"
  /\ setup = [s \in Stages |-> "todo"]
  /\ mp3Files = <<>>
  /\ idx = 0
  /\ successCount = 0
  /\ failureCount = 0
  /\ child = NoChild
  /\ promise = "none"
  /\ lateClose = {}
  /\ trace = <<>>
  /\ summary = NoSummary
  /\ ffmpegAvailable = "unknown"
  /\ readdirCalls = 0
  /\ probeSpawns = 0
  /\ logCalls = <<>>
  /\ result = NoResult
  /\ inFlight = {}
  /\ spawnLog = <<>>
  /\ probeHow = "none"
  /\ reason = <<>>

NextLogger ==
  \/ InitializeLogFile
  \/ LogDebug
  \/ LogInfo
  \/ LogWarn
  \/ LogError
  \/ LogOther
  \/ AppendComplete
  \/ LogErrorAndExit
  \/ DrainAndExit

SpecLogger == InitLogger /\ [][NextLogger]_vars

\* ------------------------------------------------------------------ claims
\* The positions of the record of this run that satisfy P.
Where(P(_)) == {i \in 1..Len(trace) : P(trace[i])}
Existed(e) == e.existed
Succeeded(e) == e.outcome = "succeeded"
Failed(e) == e.outcome = "failed"
Skipped(e) == e.outcome = "skipped"

\* The record of this run names every candidate once, in list order.
TraceComplete ==
  /\ Len(trace) = Len(mp3Files)
  /\ \A i \in 1..Len(trace) :
       /\ trace[i].input = mp3Files[i]
       /\ trace[i].outcome \in {"succeeded", "failed", "skipped"}

\* C1: when processFolder has logged its summary, every discovered candidate
\* has been counted in exactly one of succeeded, failed, skipped: the total is
\* the sum of the three, none is negative, and the skipped figure is the number
\* of candidates whose destination existed when it was checked.
C1_TallyPartition ==
  summary.logged =>
    /\ TraceComplete
    /\ summary.total = Len(mp3Files)
    /\ summary.successful = Cardinality(Where(Succeeded))
    /\ summary.failed = Cardinality(Where(Failed))
    /\ summary.skipped = Cardinality(Where(Existed))
    /\ summary.total = summary.successful + summary.failed + summary.skipped
    /\ summary.successful >= 0 /\ summary.failed >= 0 /\ summary.skipped >= 0

\* A run that met all four per-file outcomes over three candidates or more:
\* an existing destination, exit 0, a non-zero exit and a spawn failure.
C1_Witness ==
  /\ summary.logged
  /\ summary.skipped >= 1 /\ summary.successful >= 1 /\ summary.failed >= 1
  /\ \E i \in 1..Len(trace) : trace[i].how = "spawnerr"

\* C2: a per-file failure never aborts the batch: the candidates are taken in
\* list order, each once; once the loop has begun the run ends only after the
\* summary, with every candidate whose destination did not exist attempted,
\* those after a failed one included; with 3 candidates of which only the 2nd
\* fails the tally is total 3, succeeded 2, failed 1, skipped 0.
C2_FailureIsolated ==
  /\ Len(trace) <= Len(mp3Files)
  /\ \A i \in 1..Len(trace) : trace[i].input = mp3Files[i]
  /\ (setup["ensure"] = "ok" /\ pc = "exited") => (summary.logged /\ exitCode = 0)
  /\ summary.logged =>
       /\ TraceComplete
       /\ \A i \in 1..Len(trace) :
            ~trace[i].existed => trace[i].outcome \in {"succeeded", "failed"}
       /\ ( /\ Len(trace) = 3
            /\ trace[1].how = "exit0"
            /\ trace[2].how \in {"exitN", "signal", "spawnerr"}
            /\ trace[3].how = "exit0" )
          => summary = [logged |-> TRUE, total |-> 3, successful |-> 2,
                        failed |-> 1, skipped |-> 0]

\* Three candidates, the 2nd exits with a non-zero code, the 3rd is converted.
C2_Witness ==
  /\ summary.logged
  /\ Len(trace) = 3
  /\ trace[1].how = "exit0" /\ trace[2].how = "exitN" /\ trace[3].how = "exit0"
  /\ trace[3].outcome = "succeeded"
  /\ summary.failed = 1

\* Every candidate of this run had its destination when the run started.
AllDestinationsAtStart ==
  \A i \in 1..Len(mp3Files) : OutputFileOf(mp3Files[i]) \in DOMAIN startFs

\* This run and the one before it both ran processFolder to its summary.
SecondOfTwoRuns == run >= 2 /\ prev.logged /\ summary.logged

\* C3 as stated: the second of two runs over the same folders converts nothing
\* and skips every discovered file.
C3_SecondRunSkipsAll ==
  SecondOfTwoRuns => (summary.successful = 0 /\ summary.skipped = summary.total)

\* C3, amended: the second of two runs skips every file that was present after
\* the first and leaves it as it was; it converts nothing and skips every
\* discovered file when every destination was present after the first run,
\* which is the case when the first run had no failed conversion.
C3_SecondRunFillsGaps ==
  SecondOfTwoRuns =>
    /\ AllDestinationsAtStart =>
         (summary.successful = 0 /\ summary.skipped = summary.total)
    /\ prev.failed = 0 => AllDestinationsAtStart
    /\ \A i \in 1..Len(trace) :
         trace[i].output \in DOMAIN startFs =>
           /\ trace[i].outcome = "skipped"
           /\ fs[trace[i].output] = startFs[trace[i].output]

\* A second run that skipped three files the first run had converted.
C3_Witness ==
  /\ SecondOfTwoRuns
  /\ prev.successful = 3
  /\ summary.skipped = 3
  /\ \A i \in 1..Len(trace) : fs[trace[i].output] = "good"

\* C4: a candidate whose destination exists when it is checked is skipped, the
\* converter is not invoked for it, and the file that was there is still there
\* and holds what it held when the run started.
C4_ExistingDestinationUntouched ==
  \A i \in 1..Len(trace) :
    trace[i].existed =>
      /\ trace[i].outcome = "skipped"
      /\ trace[i].how = "none"
      /\ ~(child.kind = "convert" /\ child.output = trace[i].output)
      /\ trace[i].output \in DOMAIN startFs
      /\ trace[i].output \in DOMAIN fs
      /\ fs[trace[i].output] = startFs[trace[i].output]

\* A run that skipped a file that was there before and converted another.
C4_Witness ==
  /\ summary.logged
  /\ \E i, j \in 1..Len(trace) :
       /\ trace[i].existed /\ fs[trace[i].output] = "pre"
       /\ trace[j].outcome = "succeeded" /\ fs[trace[j].output] = "good"

\* C5: a candidate is counted as succeeded if and only if the first event of
\* its child was a close with exit code 0; a non-zero code, a close without a
\* code and a spawn failure are counted as failed.
C5_SucceededIffExitZero ==
  /\ \A i \in 1..Len(trace) :
       /\ trace[i].outcome = "succeeded" => trace[i].how = "exit0"
       /\ trace[i].outcome = "failed" =>
            trace[i].how \in {"exitN", "signal", "spawnerr"}
       /\ (trace[i].how = "exit0" /\ trace[i].outcome # "pending") =>
            trace[i].outcome = "succeeded"
  /\ pc \in {"loop", "completed"} =>
       /\ successCount = Cardinality({i \in 1..Len(trace) : trace[i].how = "exit0"})
       /\ failureCount =
            Cardinality({i \in 1..Len(trace) :
                           trace[i].how \in {"exitN", "signal", "spawnerr"}})

\* A run with a child ended by a signal, one that failed to spawn and one
\* that exited with 0.
C5_Witness ==
  /\ summary.logged
  /\ \E i, j, k \in 1..Len(trace) :
       /\ trace[i].how = "signal" /\ trace[i].outcome = "failed"
       /\ trace[j].how = "spawnerr" /\ trace[j].outcome = "failed"
       /\ trace[k].how = "exit0" /\ trace[k].outcome = "succeeded"

\* C6: a partial file left at the destination by a failed conversion is never
\* taken for a valid output: its candidate is not counted as succeeded, and no
\* run skips the candidate because that file is there.
C6_PartialNeverAccepted ==
  \A i \in 1..Len(trace) :
    (trace[i].output \in DOMAIN fs /\ fs[trace[i].output] = "partial") =>
      trace[i].outcome \in {"pending", "failed"}

\* C7: when the probe returns false the run ends at once with exit code 1:
\* processFolder is not called, the input folder is not listed and no
\* converter is spawned.
C7_ProbeFalseAborts ==
  ffmpegAvailable = "false" =>
    /\ pc = "exited"
    /\ exitCode = 1
    /\ readdirCalls = 0
    /\ setup["list"] = "todo"
    /\ mp3Files = <<>>
    /\ trace = <<>>
    /\ child.kind # "convert"

\* The probe returned false in a run whose input folder holds candidates.
C7_Witness ==
  /\ ffmpegAvailable = "false"
  /\ probeSpawns = 1
  /\ pc = "exited"
  /\ Len(FilterMp3(listing)) >= 2

\* The extension of the cover-art path of this run is not an image extension.
BadCoverExtension ==
  /\ args.ok
  /\ toLowerCase(extname(args.coverArtPath)) \notin ImageExtensions

\* C8: a cover-art path whose lower-cased extension is not an image extension
\* ends the run in validation with exit code 1: the binary is never invoked
\* (neither probe nor converter), nothing is listed, and the run does not
\* create the output folder.
C8_BadCoverRejected ==
  BadCoverExtension =>
    /\ pc \in {"validate", "exited"}
    /\ pc = "exited" => exitCode = 1
    /\ probeSpawns = 0
    /\ child.kind = "none"
    /\ readdirCalls = 0
    /\ trace = <<>>
    /\ args.outputFolder \in dirs => args.outputFolder \in startDirs

\* A .txt cover that exists, with the input folder there and no output folder.
C8_Witness ==
  /\ BadCoverExtension
  /\ args.coverArtPath = CoverTxt
  /\ pathExists(args.inputFolder)
  /\ pathExists(args.coverArtPath)
  /\ args.outputFolder \notin dirs
  /\ pc = "exited"

\* C9: for every threshold T and every level L among debug, info, warn and
\* error, a log call at level L writes a line to the console and issues an
\* append to the log file if and only if the rank of L is at least the rank of
\* T; otherwise it writes nothing. With threshold warn, debug and info write
\* nothing, warn and error write to both.
C9_LevelFilter ==
  (lastCall.made /\ logLevel \in Levels /\ lastCall.level \in Levels) =>
    LET passes ==
          \/ logLevel = <<"debug">>
          \/ logLevel = <<"info">> /\ lastCall.level # <<"debug">>
          \/ logLevel = <<"warn">> /\ lastCall.level \in {<<"warn">>, <<"error">>}
          \/ logLevel = <<"error">> /\ lastCall.level = <<"error">>
    IN /\ lastCall.console <=> passes
       /\ lastCall.file <=> passes
       /\ Len(console) <= calls
       /\ \A i \in 1..Len(console) :
            console[i].line.level \in
              {toUpperCase(l) : l \in {m \in Levels : logLevels[m] >= logLevels[logLevel]}}

\* Threshold warn: a warn call wrote to the console and the file, and the info
\* call after it wrote nothing.
C9_Witness ==
  /\ logLevel = <<"warn">>
  /\ lastCall.made
  /\ lastCall.level = <<"info">>
  /\ ~lastCall.console /\ ~lastCall.file
  /\ Len(console) = 1
  /\ console[1].line.level = <<"WARN">>
  /\ Len(logFile) = 1

\* C10: the exit code is 1 exactly when a setup stage failed (the arguments,
\* validation, the probe, the listing, the output folder) and 0 otherwise,
\* whatever the number of failed conversions.
C10_ExitCodeFromSetup ==
  pc = "exited" =>
    /\ exitCode \in {0, 1}
    /\ exitCode = 1 <=> (\E st \in Stages : setup[st] = "fail")
    /\ ( /\ setup["validate"] = "ok"
         /\ setup["probe"] = "ok"
         /\ setup["list"] = "ok"
         /\ setup["ensure"] = "ok" \/ Len(mp3Files) = 0 )
       => exitCode = 0

\* A run that ended with exit code 0 after all three conversions had failed.
C10_Witness ==
  /\ pc = "exited"
  /\ exitCode = 0
  /\ summary.logged
  /\ summary.total = 3
  /\ summary.failed = 3

\* The calls of block appear in logCalls, one after the other, from position
\* k + 1 on.
CallsAt(k, block) ==
  /\ k + Len(block) <= Len(logCalls)
  /\ \A i \in 1..Len(block) : logCalls[k + i] = block[i]

\* The first pieces of the messages processFolder logs for a candidate.
PerFileOpenings ==
  {"Processing: ", "Output file already exists, skipping: ", "Failed to process "}

\* The summary block with the figures of this run: the number of discovered
\* candidates and how many of them succeeded, failed and were skipped.
SummaryBlock ==
  << Call("info", <<"\n=== Processing Summary ===">>),
     Call("info", <<"Total files: ", ToString(Len(mp3Files))>>),
     Call("info", <<"Successful: ", ToString(Cardinality(Where(Succeeded)))>>),
     Call("info", <<"Failed: ", ToString(Cardinality(Where(Failed)))>>),
     Call("info", <<"Skipped: ", ToString(Cardinality(Where(Skipped)))>>) >>

\* The summary block was logged, after every per-file message of processFolder.
SummaryIssued ==
  \E k \in 0..Len(logCalls) :
    /\ CallsAt(k, SummaryBlock)
    /\ \A i \in (k + 1)..Len(logCalls) : Head(logCalls[i].message) \notin PerFileOpenings

\* No call of this run opens a summary.
NoSummaryIssued ==
  \A i \in 1..Len(logCalls) : Head(logCalls[i].message) # "\n=== Processing Summary ==="

\* C11 as stated: every processFolder call that returns (does not propagate
\* a failure) has issued the summary block at its end.
C11_SummaryAlways == result.kind = "returned" => SummaryIssued

\* C11, amended: a processFolder call that returns after discovering at least
\* one candidate has issued the summary block (total, succeeded, failed,
\* skipped) at its end, however many files failed; a call that discovers no
\* candidate returns without a summary.
C11_SummaryWhenCandidates ==
  result.kind = "returned" =>
    IF Len(mp3Files) > 0 THEN SummaryIssued ELSE NoSummaryIssued

\* processFolder returned after every one of three conversions had failed.
C11_Witness ==
  /\ result.kind = "returned"
  /\ Len(mp3Files) = 3
  /\ Cardinality(Where(Failed)) = 3
  /\ SummaryIssued

\* Discovery ran in this run and found no candidate.
NoneDiscovered == setup["list"] = "ok" /\ Len(mp3Files) = 0

\* The warning of the empty case was logged, once.
EmptyWarned ==
  Cardinality({i \in 1..Len(logCalls) :
                 logCalls[i] = Call("warn", <<"No MP3 files found in the input folder">>)}) = 1

\* No converter was spawned in this run: the only spawn is the probe's.
NoConverterSpawned ==
  /\ \A i \in 1..Len(spawnLog) : spawnLog[i].args = << <<"-version">> >>
  /\ trace = <<>>
  /\ inFlight = {}

\* No file was written or removed since the run started, and no directory
\* made but the output folder.
OutputAsAtStart ==
  /\ fs = startFs
  /\ dirs \subseteq startDirs \cup {args.outputFolder}

\* C12 as stated: with zero matching files processFolder logs a warning,
\* returns a zero-filled tally (total, succeeded, failed, skipped all 0),
\* spawns no converter and does nothing to the output folder beyond ensuring
\* that it exists.
C12_EmptyReturnsZeroTally ==
  NoneDiscovered =>
    /\ EmptyWarned
    /\ result.kind = "returned"
    /\ result.value = <<"0", "0", "0", "0">>
    /\ NoConverterSpawned
    /\ OutputAsAtStart

\* C12, amended: with zero matching files processFolder logs a warning and
\* returns to its caller without a value (no tally is returned), spawns no
\* converter and does nothing to the output folder.
C12_EmptyReturnsNothing ==
  NoneDiscovered =>
    /\ EmptyWarned
    /\ result = [kind |-> "returned", value |-> <<"undefined">>]
    /\ NoConverterSpawned
    /\ OutputAsAtStart
    /\ setup["ensure"] = "todo"

\* A run over a folder that holds only c.wav has ended.
C12_Witness ==
  /\ NoneDiscovered
  /\ listing = << <<"c", ".", "w", "a", "v">> >>
  /\ result.kind = "returned"
  /\ pc = "exited"

\* ------------------------------------------------------ discovery on its own
\* The most entries a listing of the discovery specification holds.
MaxEntries == 4

\* Entries of an input folder: plain and upper-case .mp3 names, other
\* extensions, a name with two dots, .mp3 inside a longer name, the dotfile
\* ".mp3" and a name without a dot.
DiscoveryPool ==
  { <<"a", ".", "m", "p", "3">>, <<"b", ".", "M", "P", "3">>,
    <<"c", ".", "w", "a", "v">>, <<"d", ".", "t", "x", "t">>,
    <<"e", ".", "x", ".", "M", "p", "3">>, <<"f", ".", "m", "p", "3", ".", "b">>,
    <<".", "m", "p", "3">>, <<"m", "p", "3">> }

\* A run that has passed validation and the probe and is about to list an
\* input folder with any entries of the pool.
InitDiscovery ==
  /\ argv = <<InputDir, CoverJpg>>
  /\ listing \in SeqsNoDup(DiscoveryPool, MaxEntries)
  /\ dirs = {InputDir, DefaultOutputDir}
  /\ fs = [p \in {join(InputDir, listing[i]) : i \in 1..Len(listing)} \cup {CoverJpg}
             |-> IF p = CoverJpg THEN "img" ELSE "src"]
  /\ run = 1
  /\ startFs = fs
  /\ startDirs = dirs
  /\ prev = NoSummary
  /\ pc = "list"
  /\ args = parseArguments(argv)
  /\ logLevel = DefaultLogLevel
  /\ exitCode = "none"
  /\ setup = [s \in Stages |-> IF s \in {"arguments", "validate", "probe"} THEN "ok"
                               ELSE "todo"]
  /\ mp3Files = <<>>
  /\ idx = 0
  /\ successCount = 0
  /\ failureCount = 0
  /\ child = NoChild
  /\ promise = "none"
  /\ reason = <<>>
  /\ lateClose = {}
  /\ trace = <<>>
  /\ summary = NoSummary
  /\ ffmpegAvailable = "true"
  /\ readdirCalls = 0
  /\ probeSpawns = 1
  /\ logCalls = <<>>
  /\ result = NoResult
  /\ inFlight = {}
  /\ spawnLog = <<>>
  /\ probeHow = "exit0"
  /\ FreshLogger
  /\ logDirExists = TRUE

NextDiscovery == GetMp3Files

SpecDiscovery == InitDiscovery /\ [][NextDiscovery]_vars

\* The name ends in a dot followed by mp3 in any mix of cases, and the dot
\* is not its first character.
EndsInDotMp3(name) ==
  LET k == Len(name)
  IN /\ k >= 5
     /\ name[k - 3] = "."
     /\ name[k - 2] \in {"m", "M"}
     /\ name[k - 1] \in {"p", "P"}
     /\ name[k] = "3"

\* C13: discovery returns exactly the entries of the input folder whose
\* extension is .mp3 compared case-insensitively, each once and in listing
\* order, joined to the folder, and no other entry; a.mp3, b.MP3, c.wav,
\* d.txt yields the two candidates a.mp3 and b.MP3.
C13_DiscoveryByExtension ==
  setup["list"] = "ok" =>
    LET matching == {i \in 1..Len(listing) : EndsInDotMp3(listing[i])}
    IN /\ Len(mp3Files) = Cardinality(matching)
       /\ \A i \in matching :
            Cardinality({j \in 1..Len(mp3Files) :
                           mp3Files[j] = InputDir \o <<Sep>> \o listing[i]}) = 1
       /\ \A j \in 1..Len(mp3Files) :
            \E i \in matching : mp3Files[j] = InputDir \o <<Sep>> \o listing[i]
       /\ \A j1, j2 \in 1..Len(mp3Files) :
            j1 < j2 =>
              \E i1, i2 \in matching :
                /\ i1 < i2
                /\ mp3Files[j1] = InputDir \o <<Sep>> \o listing[i1]
                /\ mp3Files[j2] = InputDir \o <<Sep>> \o listing[i2]
       /\ listing = << <<"a", ".", "m", "p", "3">>, <<"b", ".", "M", "P", "3">>,
                       <<"c", ".", "w", "a", "v">>, <<"d", ".", "t", "x", "t">> >>
          => mp3Files = << <<"m", Sep, "a", ".", "m", "p", "3">>,
                           <<"m", Sep, "b", ".", "M", "P", "3">> >>

\* The folder of the example was listed and two candidates were found.
C13_Witness ==
  /\ setup["list"] = "ok"
  /\ listing = << <<"a", ".", "m", "p", "3">>, <<"b", ".", "M", "P", "3">>,
                  <<"c", ".", "w", "a", "v">>, <<"d", ".", "t", "x", "t">> >>
  /\ Len(mp3Files) = 2

\* The spawn calls of this run that started a converter.
ConverterSpawns == {i \in 1..Len(spawnLog) : spawnLog[i].args # << <<"-version">> >>}

\* C14: at every instant at most one converter child is in flight, and when
\* the child of a candidate is spawned the child of every earlier candidate
\* has exited or has failed to start.
C14_OneChildAtATime ==
  /\ Cardinality(inFlight) <= 1
  /\ \A i \in 1..Len(trace) :
       i < Len(trace) => (trace[i].outcome = "skipped" \/ trace[i].how # "none")
  /\ \A c \in inFlight : trace[Len(trace)].input = c.input
  /\ Cardinality(ConverterSpawns) = Cardinality({i \in 1..Len(trace) : ~Skipped(trace[i])})

\* The third converter is running; the first has exited and the second had
\* failed to start, its 'close' still to come.
C14_Witness ==
  /\ Len(trace) = 3
  /\ Cardinality(inFlight) = 1
  /\ trace[1].how = "exit0"
  /\ trace[2].how = "spawnerr"
  /\ lateClose # {}

\* The sequence s ends with the sequence t.
EndsWith(s, t) == Len(s) >= Len(t) /\ SubSeq(s, Len(s) - Len(t) + 1, Len(s)) = t

\* C15: processFolder throws to its caller exactly when listing the input
\* folder or creating the output folder failed; the error carries the message
\* of the underlying cause and reaches the caller, no converter has been
\* invoked, and no candidate has been skipped or has failed.
C15_OnlySetupFailuresPropagate ==
  /\ result.kind = "threw" <=> (setup["list"] = "fail" \/ setup["ensure"] = "fail")
  /\ result.kind = "threw" =>
       /\ Head(result.value) = "Failed to process folder: "
       /\ \E cause \in IoErrors : EndsWith(result.value, cause)
       /\ setup["list"] = "fail" =>
            \E cause \in IoErrors :
              result.value = <<"Failed to process folder: ", "Failed to read directory ">>
                             \o args.inputFolder \o <<": ">> \o cause
       /\ logCalls[Len(logCalls)] =
            Call("error", <<"Application failed: ">> \o result.value)
       /\ ConverterSpawns = {}
       /\ trace = <<>>
  /\ (\E i \in 1..Len(trace) : trace[i].outcome \in {"skipped", "failed"})
       => result.kind # "threw"

\* Creating the output folder failed after two candidates had been found.
C15_Witness ==
  /\ result.kind = "threw"
  /\ setup["ensure"] = "fail"
  /\ Len(mp3Files) = 2
  /\ pc = "exited"

\* The paths of the entries of the input folder.
InputPaths == {args.inputFolder \o <<Sep>> \o listing[i] : i \in 1..Len(listing)}

\* C16: whatever the output folder is, the input folder included, no
\* converter is invoked with the path of a discovered input file as its
\* destination, and every file of the input folder that existed when the run
\* started is still there with its content.
C16_InputsNeverWritten ==
  args.ok =>
    /\ \A i \in ConverterSpawns :
         LET arguments == spawnLog[i].args
         IN \A j \in 1..Len(mp3Files) : arguments[Len(arguments)] # mp3Files[j]
    /\ \A c \in inFlight : \A j \in 1..Len(mp3Files) : c.output # mp3Files[j]
    /\ \A p \in InputPaths \cap DOMAIN startFs : p \in DOMAIN fs /\ fs[p] = startFs[p]

\* A run whose output folder is its input folder has ended: three candidates
\* were found and every one was skipped.
C16_Witness ==
  /\ args.ok
  /\ args.outputFolder = args.inputFolder
  /\ pc = "exited"
  /\ summary.logged
  /\ summary.total = 3
  /\ summary.skipped = 3
  /\ ConverterSpawns = {}

\* The argument sequence of the claim for an entry of the input folder.
ExpectedArgs(name) ==
  << <<"-i">>, args.inputFolder \o <<Sep>> \o name,
     <<"-i">>, args.coverArtPath,
     <<"-map">>, <<"0:a">>,
     <<"-map">>, <<"1:0">>,
     <<"-c:a">>, <<"copy">>,
     <<"-c:v">>, <<"copy">>,
     <<"-id3v2_version">>, <<"3">>,
     <<"-disposition:v:0">>, <<"attached_pic">>,
     <<"-y">>,
     args.outputFolder \o <<Sep>> \o name >>

\* C17: every converter is spawned as ffmpeg with exactly the arguments
\* -i inputFile -i coverArtFile -map 0:a -map 1:0 -c:a copy -c:v copy
\* -id3v2_version 3 -disposition:v:0 attached_pic -y outputFile, where
\* outputFile is the output folder joined with the unchanged base name of the
\* input file; every candidate that was not skipped was spawned so.
C17_ConverterArguments ==
  /\ \A i \in ConverterSpawns :
       /\ spawnLog[i].command = <<"ffmpeg">>
       /\ Len(spawnLog[i].args) = 18
       /\ \E j \in 1..Len(listing) : spawnLog[i].args = ExpectedArgs(listing[j])
  /\ \A k \in 1..Len(trace) :
       ~Skipped(trace[k]) =>
         \E i \in ConverterSpawns, j \in 1..Len(listing) :
           /\ trace[k].input = args.inputFolder \o <<Sep>> \o listing[j]
           /\ trace[k].output = args.outputFolder \o <<Sep>> \o listing[j]
           /\ spawnLog[i].args = ExpectedArgs(listing[j])

\* The converter was spawned for b.MP3 with the cover c.PNG: its destination
\* in the output folder keeps the name b.MP3.
C17_Witness ==
  /\ args.ok
  /\ args.coverArtPath = <<"c", ".", "P", "N", "G">>
  /\ \E i \in ConverterSpawns :
       LET arguments == spawnLog[i].args
       IN /\ arguments[2] = <<"m", Sep, "b", ".", "M", "P", "3">>
          /\ arguments[Len(arguments)] = <<"o", Sep, "b", ".", "M", "P", "3">>

\* C18: the probe's result is true exactly when the first event of its child
\* is an exit with code 0, and false when the child could not be started,
\* exited with another code or was ended by a signal; the probe's promise is
\* never rejected, it is pending until the first event, and an event after
\* the first leaves the result as it was.
C18_ProbeTrueIffExitZero ==
  /\ pc = "probing" =>
       /\ promise \in {"pending", "true", "false"}
       /\ promise = "pending" <=> probeHow = "none"
       /\ promise = "true" <=> probeHow = "exit0"
       /\ promise = "false" <=> probeHow \in {"exitN", "signal", "spawnerr"}
  /\ ffmpegAvailable \in {"unknown", "true", "false"}
  /\ ffmpegAvailable = "true" <=> (pc # "probing" /\ probeHow = "exit0")
  /\ ffmpegAvailable = "false" <=>
       (pc # "probing" /\ probeHow \in {"exitN", "signal", "spawnerr"})
  /\ setup["probe"] = "fail" <=> ffmpegAvailable = "false"

\* The binary could not be started: the child has emitted 'error' and then
\* 'close', and the result, not yet read by run(), is false.
C18_Witness ==
  /\ pc = "probing"
  /\ probeHow = "spawnerr"
  /\ child = NoChild
  /\ lateClose = {}
  /\ promise = "false"

\* The message of the error the first event of a failed child carries.
FirstReason(how) ==
  CASE how = "spawnerr" -> <<"spawn ffmpeg ENOENT">>
    [] how = "exitN" -> <<"FFmpeg process exited with code ", "1">>
    [] how = "signal" -> <<"FFmpeg process exited with code ", "null">>
    [] OTHER -> <<>>

\* The calls of the catch block of the loop.
CatchCalls == {i \in 1..Len(logCalls) : Head(logCalls[i].message) = "Failed to process "}

\* C19: a converter invocation settles once, with its first event: a child
\* that emits 'error' and later 'close' delivers the spawn error, its
\* candidate is counted as failed once, and the later 'close' changes no
\* counter and no outcome of that or of a later candidate.
C19_SettlesOnce ==
  /\ \A i \in 1..Len(trace) :
       /\ Failed(trace[i]) =>
            /\ trace[i].how \in {"spawnerr", "exitN", "signal"}
            /\ trace[i].reason = FirstReason(trace[i].how)
       /\ Succeeded(trace[i]) => trace[i].how = "exit0"
       /\ trace[i].how = "spawnerr" => trace[i].outcome \in {"pending", "failed"}
  /\ (pc = "converting" /\ trace[Len(trace)].how = "spawnerr") =>
       /\ promise = "rejected"
       /\ reason = <<"spawn ffmpeg ENOENT">>
  /\ pc \in {"loop", "converting", "completed"} =>
       /\ failureCount = Cardinality(Where(Failed))
       /\ successCount = Cardinality(Where(Succeeded))
       /\ Cardinality(CatchCalls) = failureCount

\* The first converter failed to start and its 'close' came while the second
\* candidate was being converted; the run ended with one failed and one
\* succeeded.
C19_Witness ==
  /\ pc = "exited"
  /\ summary.logged
  /\ Len(trace) = 2
  /\ trace[1].how = "spawnerr"
  /\ Failed(trace[1])
  /\ Succeeded(trace[2])
  /\ summary.failed = 1
  /\ summary.successful = 1
  /\ \E i, j \in 1..Len(logCalls) :
       /\ i < j
       /\ logCalls[i] = Call("info", <<"Processing: ">> \o basename(trace[2].input))
       /\ logCalls[j].level = "error"
       /\ EndsWith(logCalls[j].message, <<": FFmpeg exited with code ", "-2">>)
       /\ \E k \in (j + 1)..Len(logCalls) :
            Head(logCalls[k].message) = CheckMark /\ logCalls[k].level = "info"

\* C20 as stated: when initializeLogFile has failed the failure was reported
\* with console.error, the file sink is disabled, and no log call made after
\* the failure attempts a file append.
C20_FailedInitDisablesFile ==
  /\ logInit = "failed" => consoleErrors >= 1
  /\ (lastCall.made /\ lastCall.init = "failed") => ~lastCall.file

\* C21 as stated: at every instant at most one append to the log file is in
\* flight, and the lines of the log file are in the order of the calls that
\* wrote them.
C21_AppendsSerialized ==
  /\ Cardinality(appends) <= 1
  /\ \A i, j \in 1..Len(logFile) : i < j => logFile[i].timestamp < logFile[j].timestamp

\* The fs.appendFile calls that have failed: every console.error diagnostic
\* but the one of a failed initializeLogFile.
FailedAppends == consoleErrors - (IF logInit = "failed" THEN 1 ELSE 0)

\* C22 as stated: every line written to the console is appended to the log
\* file unless its write fails, the last message of a run included; when the
\* process has ended, with code 1 after the 'Application failed' error or
\* with code 0 after the completion message, no console line is missing from
\* the file but those whose append failed.
C22_ConsoleLinesReachFile ==
  pc = "exited" => Len(console) <= Len(logFile) + FailedAppends

\* C23 as stated: initializeLogFile has completed before any file append is
\* attempted: no log call issues an append, and no append is in flight, while
\* the initialization is still pending.
C23_InitBeforeAppend ==
  /\ (lastCall.made /\ lastCall.file) => lastCall.init # "pending"
  /\ appends # {} => logInit # "pending"

\* C24 as stated: under a threshold that is not debug, info, warn or error
\* every log call is a no-op and nothing reaches the console or the file; a
\* log call with a level that is none of the four is a no-op under any
\* threshold.
C24_UnrecognizedIsNoOp ==
  /\ logLevel \notin Levels => (console = <<>> /\ appends = {} /\ logFile = <<>>)
  /\ (lastCall.made /\ lastCall.level \notin Levels) =>
       (~lastCall.console /\ ~lastCall.file)

====
